---- MODULE Spec2Model ----
(***************************************************************************)
(* Model of fetch_invoices.py: the paginated fetch loop, the XML-to-record *)
(* normaliser, the VAT filter, the aggregation and the two report          *)
(* encodings, and the exit paths of main.                                  *)
(*                                                                         *)
(* Python strings are sequences of Unicode code points (a tuple of         *)
(* integers), so that str comparison, strip, join and the strptime /       *)
(* strftime conversions are computed and never assumed.  None and ""       *)
(* are both the empty sequence: ElementTree never yields "" for a          *)
(* .text, and every place the program looks at such a value is a truth     *)
(* test.  A float quantity q is the integer 2*q (halves are exact in       *)
(* binary floating point).                                                 *)
(***************************************************************************)
EXTENDS Integers, Sequences, FiniteSets, TLC

\* ------------------------------------------------------------------ bounds

MaxPages == 3
MaxRecs == 2
MaxLines == 2
MaxInvoices == 2

\* ----------------------------------------------------------------- strings

SP == 32
SEMI == 59
DASH == 45
DOT == 46

None == <<>>

Truthy(s) == Len(s) > 0

IsDigit(c) == c >= 48 /\ c <= 57

RECURSIVE LexLess(_, _)
\* Python's str < str: code point by code point, a proper prefix is smaller.
LexLess(a, b) ==
    IF Len(b) = 0 THEN FALSE
    ELSE IF Len(a) = 0 THEN TRUE
    ELSE IF Head(a) # Head(b) THEN Head(a) < Head(b)
    ELSE LexLess(Tail(a), Tail(b))

RECURSIVE LStrip(_)
LStrip(s) == IF Len(s) > 0 /\ Head(s) = SP THEN LStrip(Tail(s)) ELSE s

RECURSIVE RStrip(_)
RStrip(s) ==
    IF Len(s) > 0 /\ s[Len(s)] = SP THEN RStrip(SubSeq(s, 1, Len(s) - 1)) ELSE s

\* str.strip()
Strip(s) == RStrip(LStrip(s))

RECURSIVE Join(_, _)
\* sep.join(parts)
Join(parts, sep) ==
    IF Len(parts) = 0 THEN <<>>
    ELSE IF Len(parts) = 1 THEN parts[1]
    ELSE parts[1] \o <<sep>> \o Join(Tail(parts), sep)

RECURSIVE IntToStr(_)
\* str(n) of a non-negative int
IntToStr(n) ==
    IF n < 10 THEN <<48 + n>> ELSE IntToStr(n \div 10) \o <<48 + (n % 10)>>

RECURSIVE DigitsVal(_)
\* value of a run of decimal digits
DigitsVal(s) ==
    IF Len(s) = 0 THEN 0
    ELSE 10 * DigitsVal(SubSeq(s, 1, Len(s) - 1)) + (s[Len(s)] - 48)

AllDigits(s) == Len(s) > 0 /\ \A i \in 1..Len(s) : IsDigit(s[i])

\* ------------------------------------------------------------------- dates

ValueError == [ok |-> FALSE, y |-> 0, m |-> 0, d |-> 0]

IsLeap(y) == (y % 4 = 0) /\ ((y % 100 # 0) \/ (y % 400 = 0))

DaysInMonth(y, m) ==
    IF m = 2 THEN (IF IsLeap(y) THEN 29 ELSE 28)
    ELSE IF m \in {4, 6, 9, 11} THEN 30 ELSE 31

RECURSIVE DaysBeforeMonth(_, _)
DaysBeforeMonth(y, m) ==
    IF m = 1 THEN 0 ELSE DaysBeforeMonth(y, m - 1) + DaysInMonth(y, m - 1)

DaysBeforeYear(y) ==
    365 * (y - 1) + ((y - 1) \div 4) - ((y - 1) \div 100) + ((y - 1) \div 400)

\* date.toordinal()
ToOrdinal(y, m, d) == DaysBeforeYear(y) + DaysBeforeMonth(y, m) + d

\* date.fromordinal(n), for the years the model's dates can reach
FromOrdinal(n) ==
    LET y == CHOOSE yy \in 2020..2030 :
                 DaysBeforeYear(yy) < n /\ n <= DaysBeforeYear(yy + 1)
        r == n - DaysBeforeYear(y)
        m == CHOOSE mm \in 1..12 :
                 DaysBeforeMonth(y, mm) < r
                 /\ r <= DaysBeforeMonth(y, mm) + DaysInMonth(y, mm)
    IN [ok |-> TRUE, y |-> y, m |-> m, d |-> r - DaysBeforeMonth(y, m)]

\* datetime.strptime(s, "%Y-%m-%d"): four digits, "-", a month of one or two
\* digits, "-", a day of one or two digits and nothing after it; the month
\* and the day must exist in the calendar.
strptime(s) ==
    IF Len(s) < 8 \/ Len(s) > 10 THEN ValueError
    ELSE IF ~(AllDigits(SubSeq(s, 1, 4)) /\ s[5] = DASH) THEN ValueError
    ELSE LET mlen == IF s[7] = DASH THEN 1 ELSE 2
             ms == SubSeq(s, 6, 5 + mlen)
             ds == SubSeq(s, 7 + mlen, Len(s))
             y == DigitsVal(SubSeq(s, 1, 4))
             m == DigitsVal(ms)
             d == DigitsVal(ds)
         IN IF s[6 + mlen] # DASH \/ ~AllDigits(ms) \/ ~AllDigits(ds)
               \/ Len(ds) > 2 THEN ValueError
            ELSE IF y < 1 \/ m < 1 \/ m > 12 \/ d < 1 \/ d > DaysInMonth(y, m)
                 THEN ValueError
            ELSE [ok |-> TRUE, y |-> y, m |-> m, d |-> d]

Pad2(n) == IF n < 10 THEN <<48>> \o IntToStr(n) ELSE IntToStr(n)

\* date.strftime("%Y-%m-%d") for a four-digit year
strftime(dt) == IntToStr(dt.y) \o <<DASH>> \o Pad2(dt.m) \o <<DASH>> \o Pad2(dt.d)

\* date + timedelta(days=n)
AddDays(dt, n) == FromOrdinal(ToOrdinal(dt.y, dt.m, dt.d) + n)

\* date.weekday(): Monday is 0
weekday(dt) == (ToOrdinal(dt.y, dt.m, dt.d) + 6) % 7

greek_days ==
    [i \in 0..6 |->
        CASE i = 0 -> <<916, 949, 965, 964, 941, 961, 945>>
          [] i = 1 -> <<932, 961, 943, 964, 951>>
          [] i = 2 -> <<932, 949, 964, 940, 961, 964, 951>>
          [] i = 3 -> <<928, 941, 956, 960, 964, 951>>
          [] i = 4 -> <<928, 945, 961, 945, 963, 954, 949, 965, 942>>
          [] i = 5 -> <<931, 940, 946, 946, 945, 964, 959>>
          [] i = 6 -> <<922, 965, 961, 953, 945, 954, 942>>]

\* get_greek_day_name: [ok, name]; ok = FALSE is the ValueError of strptime
get_greek_day_name(date_str) ==
    LET dt == strptime(date_str)
    IN IF dt.ok THEN [ok |-> TRUE, name |-> greek_days[weekday(dt)]]
       ELSE [ok |-> FALSE, name |-> None]

\* validate_date
validate_date(date_str) == strptime(date_str).ok

\* --------------------------------------------------------- parse_invoices

\* float(text): surrounding whitespace is ignored; an optional sign, digits,
\* and an optional fraction of one digit.  The result is twice the float
\* (the model's quantity literals have a fraction of .0 or .5 or none).
\* ok = FALSE is Python's ValueError.
float(text) ==
    LET t == Strip(text)
        neg == Len(t) > 0 /\ Head(t) = DASH
        u == IF neg THEN Tail(t) ELSE t
        hasDot == Len(u) >= 2 /\ u[Len(u) - 1] = DOT
        ip == IF hasDot THEN SubSeq(u, 1, Len(u) - 2) ELSE u
        fd == IF hasDot THEN u[Len(u)] ELSE 48
    IN IF ~AllDigits(ip) \/ fd \notin {48, 53} THEN [ok |-> FALSE, val |-> 0]
       ELSE LET v == 2 * DigitsVal(ip) + (IF fd = 53 THEN 1 ELSE 0)
            IN [ok |-> TRUE, val |-> IF neg THEN 0 - v ELSE v]

\* An optional child element is a sequence of length 0 or 1; the text of a
\* leaf element is a string, None when the element is empty.
Present(e) == Len(e) = 1

\* element is not None and element.text is truthy
HasText(e) == Present(e) /\ Truthy(e[1])

\* mutant of detail_records: a quantity that is no number counts as zero
detail_records_zero(issuer_name, issuer_vat, issue_date, detail) ==
    IF ~Present(detail.itemDescr) \/ ~Present(detail.quantity) THEN <<>>
    ELSE IF ~Truthy(detail.itemDescr[1]) \/ ~Truthy(detail.quantity[1]) THEN <<>>
    ELSE << [issuer_name |-> issuer_name,
             issuer_vat |-> issuer_vat,
             item_descr |-> Strip(detail.itemDescr[1]),
             issue_date |-> issue_date,
             quantity |-> float(detail.quantity[1]).val,
             date_adjustment |-> <<>>] >>

\* the records of one invoiceDetails element (lines 169-191); the optional
\* date_adjustment key of the dict is a sequence of length 0 (no key) or 1
detail_records(issuer_name, issuer_vat, issue_date, detail) ==
    IF ~Present(detail.itemDescr) \/ ~Present(detail.quantity) THEN <<>>
    ELSE IF ~Truthy(detail.itemDescr[1]) \/ ~Truthy(detail.quantity[1]) THEN <<>>
    ELSE LET quantity == float(detail.quantity[1])
         IN IF ~quantity.ok THEN <<>>
            ELSE << [issuer_name |-> issuer_name,
                     issuer_vat |-> issuer_vat,
                     item_descr |-> Strip(detail.itemDescr[1]),
                     issue_date |-> issue_date,
                     quantity |-> quantity.val,
                     date_adjustment |-> <<>>] >>   \* key not set yet

RECURSIVE details_records(_, _, _, _)
details_records(issuer_name, issuer_vat, issue_date, details) ==
    IF Len(details) = 0 THEN <<>>
    ELSE detail_records(issuer_name, issuer_vat, issue_date, Head(details))
         \o details_records(issuer_name, issuer_vat, issue_date, Tail(details))

\* the records of one invoice element (lines 144-191)
invoice_records(invoice) ==
    IF ~Present(invoice.issuer) THEN <<>>
    ELSE LET issuer == invoice.issuer[1]
             issuer_vat == IF HasText(issuer.vatNumber)
                           THEN Strip(issuer.vatNumber[1]) ELSE <<>>
         IN IF ~HasText(issuer.name) THEN <<>>
            ELSE IF ~Present(invoice.invoiceHeader) THEN <<>>
            ELSE IF ~HasText(invoice.invoiceHeader[1].issueDate) THEN <<>>
            ELSE details_records(Strip(issuer.name[1]), issuer_vat,
                                 Strip(invoice.invoiceHeader[1].issueDate[1]),
                                 invoice.invoiceDetails)

RECURSIVE invoices_records(_)
invoices_records(invoices) ==
    IF Len(invoices) = 0 THEN <<>>
    ELSE invoice_records(Head(invoices)) \o invoices_records(Tail(invoices))

\* A response body: kind "empty" is the empty string, "malformed" any text
\* that ET.fromstring rejects, "doc" a parsed document whose root has an
\* optional continuationToken and an optional invoicesDoc.
EmptyBody == [kind |-> "empty", token |-> <<>>, invoicesDoc |-> <<>>]
MalformedBody == [kind |-> "malformed", token |-> <<>>, invoicesDoc |-> <<>>]

\* parse_invoices: (records, next_partition_key, next_row_key)
parse_invoices(xml_content) ==
    IF xml_content.kind # "doc"
    THEN [records |-> <<>>, npk |-> None, nrk |-> None]
    ELSE LET tok == xml_content.token
             npk == IF Present(tok) /\ Present(tok[1].nextPartitionKey)
                    THEN tok[1].nextPartitionKey[1] ELSE None
             nrk == IF Present(tok) /\ Present(tok[1].nextRowKey)
                    THEN tok[1].nextRowKey[1] ELSE None
         IN [records |-> IF ~Present(xml_content.invoicesDoc) THEN <<>>
                         ELSE invoices_records(xml_content.invoicesDoc[1]),
             npk |-> npk, nrk |-> nrk]

\* ------------------------------------------------- fetch loop (one turn)

\* mutant of cursor_exhausted: stops only when both components are missing
cursor_exhausted_both(npk, nrk) == ~Truthy(npk) /\ ~Truthy(nrk)

\* line 230: if not next_partition_key or not next_row_key: break
cursor_exhausted(npk, nrk) == ~Truthy(npk) \/ ~Truthy(nrk)

SLASH == 47

\* convert_date_to_api_format: "%d/%m/%Y" of the parsed date; ok = FALSE is
\* the ValueError of strptime
convert_date_to_api_format(date_str) ==
    LET date_obj == strptime(date_str)
    IN IF date_obj.ok
       THEN [ok |-> TRUE,
             text |-> Pad2(date_obj.d) \o <<SLASH>> \o Pad2(date_obj.m)
                      \o <<SLASH>> \o IntToStr(date_obj.y)]
       ELSE [ok |-> FALSE, text |-> None]

\* the query of one GET (lines 70-82): a cursor component is sent only when
\* it is truthy, so an absent one and "" are the same request
request_params(date_from, date_to, npk, nrk) ==
    [dateFrom |-> convert_date_to_api_format(date_from).text,
     dateTo |-> convert_date_to_api_format(date_to).text,
     nextPartitionKey |-> npk, nextRowKey |-> nrk]

\* mutant of fetch_turn: a failed call is tried again with the same cursor
fetch_turn_retry(st, xml_content) ==
    IF xml_content.kind = "empty"
    THEN [st EXCEPT !.again = TRUE]
    ELSE LET p == parse_invoices(xml_content)
         IN [all_records |-> st.all_records \o p.records,
             npk |-> p.npk, nrk |-> p.nrk,
             page |-> st.page + 1,
             again |-> ~(~Truthy(p.npk) \/ ~Truthy(p.nrk))]

\* One turn of the while loop of fetch_all_invoices_for_period (lines
\* 214-231) on the body the transport returned: the new loop state, and
\* whether the loop goes round again.
fetch_turn(st, xml_content) ==
    IF xml_content.kind = "empty"          \* if not xml_content: break
    THEN [st EXCEPT !.again = FALSE]
    ELSE LET p == parse_invoices(xml_content)
         IN [all_records |-> st.all_records \o p.records,
             npk |-> p.npk, nrk |-> p.nrk,
             page |-> st.page + 1,
             again |-> ~cursor_exhausted(p.npk, p.nrk)]

\* ------------------------------------------------------ read_vat_numbers

HASH == 35

RECURSIVE BeforeHash(_)
\* line.split('#')[0]
BeforeHash(s) ==
    IF Len(s) = 0 \/ Head(s) = HASH THEN <<>>
    ELSE <<Head(s)>> \o BeforeHash(Tail(s))

RECURSIVE FirstWord(_)
FirstWord(s) ==
    IF Len(s) = 0 \/ Head(s) = SP THEN <<>>
    ELSE <<Head(s)>> \o FirstWord(Tail(s))

RECURSIVE SplitWords(_)
\* str.split(): the maximal runs of non-blank characters
SplitWords(s) ==
    LET t == LStrip(s)
    IN IF Len(t) = 0 THEN <<>>
       ELSE LET w == FirstWord(t)
            IN <<w>> \o SplitWords(SubSeq(t, Len(w) + 1, Len(t)))

\* int(text) of a word: an optional sign and digits, else ValueError
int(text) ==
    LET neg == Len(text) > 0 /\ Head(text) = DASH
        u == IF neg \/ (Len(text) > 0 /\ Head(text) = 43) THEN Tail(text) ELSE text
    IN IF ~AllDigits(u) THEN [ok |-> FALSE, val |-> 0]
       ELSE [ok |-> TRUE, val |-> IF neg THEN 0 - DigitsVal(u) ELSE DigitsVal(u)]

\* the (vat_number, date_adjustment) of one line, none for a blank line
vat_line(raw) ==
    LET line == Strip(BeforeHash(raw))
        parts == SplitWords(line)
    IN IF ~Truthy(line) THEN <<>>
       ELSE IF Len(parts) < 2 THEN << <<parts[1], 0>> >>
       ELSE << <<parts[1], IF int(parts[2]).ok THEN int(parts[2]).val ELSE 0>> >>

RECURSIVE vat_lines(_)
vat_lines(lines) ==
    IF Len(lines) = 0 THEN <<>> ELSE vat_line(Head(lines)) \o vat_lines(Tail(lines))

\* read_vat_numbers: ok = FALSE is the sys.exit(1) of a file that cannot be
\* opened or read
read_vat_numbers(file) ==
    IF ~file.exists THEN [ok |-> FALSE, vat_data |-> <<>>]
    ELSE [ok |-> TRUE, vat_data |-> vat_lines(file.lines)]

\* ------------------------------------------------- filter_by_vat_numbers

\* mutant of vat_keys: the identifiers of the table are not stripped
vat_keys_raw(vat_data) == {vat_data[i][1] : i \in 1..Len(vat_data)}

\* the keys of vat_map (line 248)
vat_keys(vat_data) == {Strip(vat_data[i][1]) : i \in 1..Len(vat_data)}

\* vat_map[key]: in a dict comprehension the last pair of a key wins
vat_map_get(vat_data, key) ==
    LET last == CHOOSE i \in 1..Len(vat_data) :
                    /\ Strip(vat_data[i][1]) = key
                    /\ \A j \in (i + 1)..Len(vat_data) : Strip(vat_data[j][1]) # key
    IN vat_data[last][2]

\* line 252: if issuer_vat in vat_map
vat_matches(issuer_vat, vat_data) == issuer_vat \in vat_keys(vat_data)

\* the record as the loop body leaves it (lines 251-253): the dict is
\* changed in place
adjust_record(record, vat_data) ==
    IF vat_matches(record.issuer_vat, vat_data)
    THEN [record EXCEPT !.date_adjustment = <<vat_map_get(vat_data, record.issuer_vat)>>]
    ELSE record

RECURSIVE filter_by_vat_numbers(_, _)
filter_by_vat_numbers(recs, vat_data) ==
    IF Len(recs) = 0 THEN <<>>
    ELSE (IF vat_matches(Head(recs).issuer_vat, vat_data)
          THEN <<adjust_record(Head(recs), vat_data)>> ELSE <<>>)
         \o filter_by_vat_numbers(Tail(recs), vat_data)

\* the caller's list after filter_by_vat_numbers: the same dicts, changed
records_after_filter(recs, vat_data) ==
    [i \in 1..Len(recs) |-> adjust_record(recs[i], vat_data)]

\* lines 555-557: no filter file, every record gets date_adjustment 0
unfiltered(recs) == [i \in 1..Len(recs) |-> [recs[i] EXCEPT !.date_adjustment = <<0>>]]

\* --------------------------------------------------------- aggregate_data

\* record.get("date_adjustment", 0)
get_date_adjustment(record) ==
    IF Len(record.date_adjustment) = 1 THEN record.date_adjustment[1] ELSE 0

\* lines 297-307: the date the quantity is booked on; ok = FALSE is the
\* ValueError of strptime
adjusted_date(record) ==
    LET date_adjustment == get_date_adjustment(record)
    IN IF date_adjustment # 0
       THEN LET date_obj == strptime(record.issue_date)
            IN IF date_obj.ok
               THEN [ok |-> TRUE, date |-> strftime(AddDays(date_obj, date_adjustment))]
               ELSE [ok |-> FALSE, date |-> None]
       ELSE [ok |-> TRUE, date |-> record.issue_date]

EmptyDict == [x \in {} |-> 0]

\* dict.get(key, default)
dict_get(dict, key, default) == IF key \in DOMAIN dict THEN dict[key] ELSE default

\* mutant of add_quantity: the cell is assigned, not added to
add_quantity_assign(aggregated, key, date, quantity) ==
    LET row == dict_get(aggregated, key, EmptyDict)
    IN [k \in DOMAIN aggregated \cup {key} |->
           IF k = key
           THEN [d \in DOMAIN row \cup {date} |->
                    IF d = date THEN quantity ELSE row[d]]
           ELSE aggregated[k]]

\* line 309: aggregated[key][adjusted_date] += quantity
add_quantity(aggregated, key, date, quantity) ==
    LET row == dict_get(aggregated, key, EmptyDict)
        cell == dict_get(row, date, 0)
    IN [k \in DOMAIN aggregated \cup {key} |->
           IF k = key
           THEN [d \in DOMAIN row \cup {date} |->
                    IF d = date THEN cell + quantity ELSE row[d]]
           ELSE aggregated[k]]

RECURSIVE aggregate_loop(_, _)
\* the for loop of lines 295-310 from a given matrix
aggregate_loop(aggregated, recs) ==
    IF Len(recs) = 0 THEN aggregated
    ELSE LET record == Head(recs)
         IN aggregate_loop(
                add_quantity(aggregated,
                             <<record.issuer_name, record.item_descr>>,
                             adjusted_date(record).date, record.quantity),
                Tail(recs))

RECURSIVE sorted(_)
\* sorted(list(set_of_str))
sorted(S) ==
    IF S = {} THEN <<>>
    ELSE LET m == CHOOSE x \in S : \A y \in S : ~LexLess(y, x)
         IN <<m>> \o sorted(S \ {m})

\* aggregate_data: ok = FALSE when a strptime of the loop raised
aggregate_data(recs) ==
    IF \E i \in 1..Len(recs) : ~adjusted_date(recs[i]).ok
    THEN [ok |-> FALSE, aggregated |-> EmptyDict, dates |-> <<>>]
    ELSE [ok |-> TRUE,
          aggregated |-> aggregate_loop(EmptyDict, recs),
          dates |-> sorted({adjusted_date(recs[i]).date : i \in 1..Len(recs)})]

\* ----------------------------------------------------------------- reports

\* tuple comparison of two (issuer_name, item_descr) keys
KeyLess(a, b) == LexLess(a[1], b[1]) \/ (a[1] = b[1] /\ LexLess(a[2], b[2]))

RECURSIVE sorted_keys(_)
\* the keys of sorted(aggregated_data.items())
sorted_keys(S) ==
    IF S = {} THEN <<>>
    ELSE LET m == CHOOSE x \in S : \A y \in S : ~KeyLess(y, x)
         IN <<m>> \o sorted_keys(S \ {m})

LabelIssuer == <<73, 115, 115, 117, 101, 114>>
LabelItem == <<73, 116, 101, 109, 32, 68, 101, 115, 99, 114, 105, 112, 116, 105, 111, 110>>

StrCell(s) == [t |-> "str", v |-> s]
NumCell(q) == [t |-> "num", v |-> <<q>>]

\* line 354: if quantity > 0
excel_shows(quantity) == quantity > 0

\* mutant of csv_shows: a sum of zero is written too
csv_shows_zero(quantity) == quantity >= 0

\* line 394: if quantity > 0
csv_shows(quantity) == quantity > 0

\* int(quantity) of a positive float held as twice its value
int_of_float(quantity) == quantity \div 2

\* line 394: the text of one cell
csv_cell(quantity) ==
    IF csv_shows(quantity) THEN IntToStr(int_of_float(quantity)) ELSE <<>>

\* the worksheet cells generate_excel writes (lines 331-357), as a function
\* from (row, column) to the value written
excel_cells(aggregated_data, dates_) ==
    LET keys == sorted_keys(DOMAIN aggregated_data)
        head == {<<1, 1>>, <<1, 2>>}
                \cup {<<r, j + 2>> : r \in {1, 2}, j \in 1..Len(dates_)}
        data == {<<i + 2, c>> : i \in 1..Len(keys), c \in {1, 2}}
                \cup {rc \in (3..(Len(keys) + 2)) \X (3..(Len(dates_) + 2)) :
                        excel_shows(dict_get(aggregated_data[keys[rc[1] - 2]],
                                             dates_[rc[2] - 2], 0))}
    IN [rc \in head \cup data |->
           IF rc = <<1, 1>> THEN StrCell(LabelIssuer)
           ELSE IF rc = <<1, 2>> THEN StrCell(LabelItem)
           ELSE IF rc[1] = 1 THEN StrCell(dates_[rc[2] - 2])
           ELSE IF rc[1] = 2 THEN StrCell(get_greek_day_name(dates_[rc[2] - 2]).name)
           ELSE IF rc[2] <= 2 THEN StrCell(keys[rc[1] - 2][rc[2]])
           ELSE NumCell(aggregated_data[keys[rc[1] - 2]][dates_[rc[2] - 2]])]

\* generate_excel: the saved workbook; ok = FALSE when get_greek_day_name
\* raised, which is before wb.save
generate_excel(aggregated_data, dates_) ==
    IF \E j \in 1..Len(dates_) : ~get_greek_day_name(dates_[j]).ok
    THEN [ok |-> FALSE, book |-> [cells |-> EmptyDict, bold |-> {}, width |-> EmptyDict]]
    ELSE [ok |-> TRUE,
          book |-> [cells |-> excel_cells(aggregated_data, dates_),
                    bold |-> {<<r, c>> : r \in {1, 2}, c \in 1..(Len(dates_) + 2)},
                    width |-> [c \in 1..(Len(dates_) + 2) |->
                                  IF c = 1 THEN 50 ELSE IF c = 2 THEN 60 ELSE 12]]]

NL == 10

\* lines 390-397: the text of the data rows
RECURSIVE csv_rows(_, _, _)
csv_rows(keys, aggregated_data, dates_) ==
    IF Len(keys) = 0 THEN <<>>
    ELSE LET k == Head(keys)
             row == <<k[1], k[2]>>
                    \o [j \in 1..Len(dates_) |->
                           csv_cell(dict_get(aggregated_data[k], dates_[j], 0))]
         IN Join(row, SEMI) \o <<NL>> \o csv_rows(Tail(keys), aggregated_data, dates_)

\* generate_csv: the text of the file; ok = FALSE when get_greek_day_name
\* raised, which leaves the file with what was written before
generate_csv(aggregated_data, dates_) ==
    LET line1 == <<SEMI, SEMI>> \o Join(dates_, SEMI) \o <<NL>>
    IN IF \E j \in 1..Len(dates_) : ~get_greek_day_name(dates_[j]).ok
       THEN [ok |-> FALSE, text |-> line1 \o <<SEMI, SEMI>>]
       ELSE [ok |-> TRUE,
             text |-> line1
                      \o <<SEMI, SEMI>>
                      \o Join([j \in 1..Len(dates_) |->
                                  get_greek_day_name(dates_[j]).name], SEMI)
                      \o <<NL>>
                      \o csv_rows(sorted_keys(DOMAIN aggregated_data),
                                  aggregated_data, dates_)]

\* write_vat_output: the text of the identifier dump (lines 471-480)
first_name(recs, vat) ==
    recs[CHOOSE i \in 1..Len(recs) :
            /\ recs[i].issuer_vat = vat
            /\ \A j \in 1..(i - 1) : recs[j].issuer_vat # vat].issuer_name

RECURSIVE vat_out_lines(_, _)
vat_out_lines(vats, recs) ==
    IF Len(vats) = 0 THEN <<>>
    ELSE Head(vats) \o <<SP, SP, 48, SP, SP, SP, HASH, SP>>
         \o first_name(recs, Head(vats)) \o <<NL>>
         \o vat_out_lines(Tail(vats), recs)

write_vat_output(recs) ==
    vat_out_lines(sorted({recs[i].issuer_vat : i \in 1..Len(recs)} \ {None}), recs)

\* ------------------------------------------------------------------ inputs

\* "YYYY-MM-DD", "Y-M-D" without zero padding, and an xs:date with a zone
Iso(y, m, d) == strftime([y |-> y, m |-> m, d |-> d])
Short(y, m, d) == IntToStr(y) \o <<DASH>> \o IntToStr(m) \o <<DASH>> \o IntToStr(d)
Zoned(y, m, d) == Iso(y, m, d) \o <<90>>     \* ...Z

NameA == <<65>>
NameB == <<66>>
ItemW == <<87>>
ItemG == <<71>>
Vat123 == <<49, 50, 51>>
Vat12 == <<49, 50>>
Vat999 == <<57, 57, 57>>
KeyP1 == <<112, 49>>
KeyP2 == <<112, 50>>
KeyR1 == <<114, 49>>
KeyR2 == <<114, 50>>

\* the command line (argparse has accepted it)
ArgDates == {Iso(2024, 1, 1), <<50, 48, 50, 52, 45, 49, 51, 45, 48, 49>>}
Formats == {"xlsx", "csv", "both"}

\* the filter file on disk
NoFile == [exists |-> FALSE, lines |-> <<>>]
FileOf(lines) == [exists |-> TRUE, lines |-> lines]
FilterFiles ==
    { NoFile,
      FileOf(<< <<HASH, SP, 99>> >>),                          \* "# c"
      FileOf(<< <<49, 50, 51, SP, DASH, 49>> >>),              \* "123 -1"
      FileOf(<< <<HASH, SP, 99>>,
                <<SP, 57, 57, 57, SP, SP, HASH, SP, 120>>,     \* " 999  # x"
                <<49, 50, SP, 120>> >>) }                      \* "12 x"

\* response bodies
Leaf(text) == <<text>>
Token(npk, nrk) == << [nextPartitionKey |-> npk, nextRowKey |-> nrk] >>
Line(descr, qty) == [itemDescr |-> descr, quantity |-> qty]
Invoice(issuer, header, details) ==
    [issuer |-> issuer, invoiceHeader |-> header, invoiceDetails |-> details]
Issuer(vat, name) == << [vatNumber |-> vat, name |-> name] >>
Header(date) == << [issueDate |-> date] >>
Doc(token, invoicesDoc) == [kind |-> "doc", token |-> token, invoicesDoc |-> invoicesDoc]

Q2 == <<50>>
Q3 == <<51>>
Q45 == <<52, DOT, 53>>
Qabc == <<97, 98, 99>>

\* ACME's invoice of the end-to-end scenario: two lines of one item
InvoiceA ==
    Invoice(Issuer(Leaf(Vat123), Leaf(NameA)), Header(Leaf(Iso(2024, 1, 5))),
            <<Line(Leaf(ItemW), Leaf(Q2)), Line(Leaf(ItemW), Leaf(Q3))>>)
InvoiceB ==
    Invoice(Issuer(Leaf(<<SP>> \o Vat999), Leaf(NameB \o <<SP>>)),
            Header(Leaf(Short(2024, 1, 4))),
            <<Line(Leaf(ItemG), Leaf(Q45)), Line(Leaf(ItemW), Leaf(Qabc))>>)

FullTokens == {Token(Leaf(KeyP1), Leaf(KeyR1)), Token(Leaf(KeyP2), Leaf(KeyR2))}
LastTokens ==
    { <<>>, Token(Leaf(KeyP1), <<>>), Token(Leaf(None), Leaf(KeyR1)) }
Containers == { <<>>, << <<InvoiceA>> >>, << <<InvoiceB>> >> }

\* what the transport can hand back on a call: "" for a failed call, text
\* that does not parse, or a document
Bodies(tokens) ==
    {EmptyBody, MalformedBody} \cup {Doc(t, c) : t \in tokens, c \in Containers}

\* ------------------------------------------------------------------- state

VARIABLES
    pc,                  \* where the run is
    env,                 \* USER_ID and API_KEY of the environment (set or not)
    args,                \* the parsed command line
    vatfile,             \* the filter file on disk
    requests,            \* the cursor parameters of every GET issued
    bodies,              \* the body every GET returned
    all_records, next_partition_key, next_row_key, page,
    records, vat_data, aggregated, dates,
    files,               \* the files this run has written, by kind
    exit_code,           \* -1 while running
    arg, ret             \* argument and result of a function applied alone

vars == <<pc, env, args, vatfile, requests, bodies, all_records,
          next_partition_key, next_row_key, page, records, vat_data,
          aggregated, dates, files, exit_code, arg, ret>>

loopVars == <<requests, bodies, all_records, next_partition_key, next_row_key, page>>
dataVars == <<records, vat_data, aggregated, dates>>
fixedVars == <<env, args, vatfile, arg, ret>>

NoFiles == [x \in {} |-> <<>>]

WriteFile(fs, kind, content) == [k \in DOMAIN fs \cup {kind} |->
                                    IF k = kind THEN content ELSE fs[k]]

Blank ==
    /\ requests = <<>> /\ bodies = <<>>
    /\ all_records = <<>> /\ next_partition_key = None /\ next_row_key = None
    /\ page = 1
    /\ records = <<>> /\ vat_data = <<>>
    /\ aggregated = EmptyDict /\ dates = <<>>
    /\ files = NoFiles /\ exit_code = -1
    /\ arg = <<>> /\ ret = <<>>

Init ==
    /\ pc = "import"
    /\ env \in [USER_ID : BOOLEAN, API_KEY : BOOLEAN]
    /\ args \in [start_date : ArgDates, end_date : ArgDates,
                 vat_file : BOOLEAN, format : Formats, vat_out : BOOLEAN]
    /\ IF args.vat_file THEN vatfile \in FilterFiles ELSE vatfile = NoFile
    /\ Blank

Exit(code) == pc' = "exit" /\ exit_code' = code

\* mutant of credentials_missing: only the absence of both is an error
credentials_missing_both(e) == ~e.USER_ID /\ ~e.API_KEY

\* line 26: if not USER_ID or not API_KEY
credentials_missing(e) == ~e.USER_ID \/ ~e.API_KEY

\* lines 26-29: the credential check when the module is loaded
ModuleLoad ==
    /\ pc = "import"
    /\ IF credentials_missing(env) THEN Exit(1)
       ELSE pc' = "validate" /\ UNCHANGED exit_code
    /\ UNCHANGED <<loopVars, dataVars, fixedVars, files>>

\* lines 523-531
ValidateDates ==
    /\ pc = "validate"
    /\ IF ~validate_date(args.start_date) THEN Exit(1)
       ELSE IF ~validate_date(args.end_date) THEN Exit(1)
       ELSE pc' = "fetch" /\ UNCHANGED exit_code
    /\ UNCHANGED <<loopVars, dataVars, fixedVars, files>>

\* One turn of the loop of fetch_all_invoices_for_period: the GET with the
\* current cursor, any body the server may answer with, and lines 221-231.
\* The server ends the feed by page MaxPages.  fetch_invoices converts the
\* dates first (lines 67-68): a ValueError there is not caught and ends the
\* run with a traceback and exit code 1, before any request.
FetchPage ==
    /\ pc = "fetch"
    /\ IF ~convert_date_to_api_format(args.start_date).ok
          \/ ~convert_date_to_api_format(args.end_date).ok
       THEN Exit(1) /\ UNCHANGED loopVars
       ELSE /\ \E body \in Bodies(IF page < MaxPages THEN FullTokens \cup LastTokens
                                  ELSE LastTokens) :
                 LET st == fetch_turn([all_records |-> all_records,
                                       npk |-> next_partition_key,
                                       nrk |-> next_row_key,
                                       page |-> page, again |-> TRUE], body)
                 IN /\ requests' = Append(requests,
                                          request_params(args.start_date, args.end_date,
                                                         next_partition_key, next_row_key))
                    /\ bodies' = Append(bodies, body)
                    /\ all_records' = st.all_records
                    /\ next_partition_key' = st.npk
                    /\ next_row_key' = st.nrk
                    /\ page' = st.page
                    /\ pc' = IF st.again THEN "fetch" ELSE "fetched"
            /\ UNCHANGED exit_code
    /\ UNCHANGED <<dataVars, fixedVars, files>>

\* lines 536-538
CheckFetched ==
    /\ pc = "fetched"
    /\ IF Len(all_records) = 0 THEN Exit(0)
       ELSE pc' = "vat_out" /\ UNCHANGED exit_code
    /\ UNCHANGED <<loopVars, dataVars, fixedVars, files>>

\* lines 541-542
WriteVatOutput ==
    /\ pc = "vat_out"
    /\ files' = IF args.vat_out
                THEN WriteFile(files, "vat_out", write_vat_output(all_records))
                ELSE files
    /\ pc' = "filter"
    /\ UNCHANGED <<loopVars, dataVars, fixedVars, exit_code>>

\* lines 545-557
Filter ==
    /\ pc = "filter"
    /\ IF args.vat_file
       THEN LET r == read_vat_numbers(vatfile)
            IN IF ~r.ok \/ Len(r.vat_data) = 0
               THEN /\ Exit(1)
                    /\ vat_data' = r.vat_data
                    /\ UNCHANGED <<records, all_records>>
               ELSE /\ vat_data' = r.vat_data
                    /\ records' = filter_by_vat_numbers(all_records, r.vat_data)
                    /\ all_records' = records_after_filter(all_records, r.vat_data)
                    /\ pc' = "check_filtered"
                    /\ UNCHANGED exit_code
       ELSE /\ records' = unfiltered(all_records)
            /\ all_records' = unfiltered(all_records)
            /\ pc' = "check_filtered"
            /\ UNCHANGED <<vat_data, exit_code>>
    /\ UNCHANGED <<requests, bodies, next_partition_key, next_row_key, page,
                   aggregated, dates, fixedVars, files>>

\* mutant of no_records: only a missing list counts as no data
no_records_never(recs) == FALSE

\* line 559: if not records
no_records(recs) == Len(recs) = 0

\* lines 559-561
CheckFiltered ==
    /\ pc = "check_filtered"
    /\ IF no_records(records) THEN Exit(0)
       ELSE pc' = "aggregate" /\ UNCHANGED exit_code
    /\ UNCHANGED <<loopVars, dataVars, fixedVars, files>>

\* lines 563-566; an uncaught ValueError ends the run with a traceback and
\* exit code 1
Aggregate ==
    /\ pc = "aggregate"
    /\ LET r == aggregate_data(records)
       IN IF r.ok
          THEN /\ aggregated' = r.aggregated
               /\ dates' = r.dates
               /\ pc' = "excel"
               /\ UNCHANGED exit_code
          ELSE Exit(1) /\ UNCHANGED <<aggregated, dates>>
    /\ UNCHANGED <<loopVars, records, vat_data, fixedVars, files>>

\* lines 569-570
GenerateExcel ==
    /\ pc = "excel"
    /\ IF args.format \in {"xlsx", "both"}
       THEN LET r == generate_excel(aggregated, dates)
            IN IF r.ok
               THEN /\ files' = WriteFile(files, "xlsx", r.book)
                    /\ pc' = "csv"
                    /\ UNCHANGED exit_code
               ELSE Exit(1) /\ UNCHANGED files
       ELSE pc' = "csv" /\ UNCHANGED <<files, exit_code>>
    /\ UNCHANGED <<loopVars, dataVars, fixedVars>>

\* lines 572-575, and the return of main
GenerateCsv ==
    /\ pc = "csv"
    /\ IF args.format \in {"csv", "both"}
       THEN LET r == generate_csv(aggregated, dates)
            IN /\ files' = WriteFile(files, "csv", r.text)
               /\ IF r.ok THEN pc' = "done" /\ exit_code' = 0 ELSE Exit(1)
       ELSE pc' = "done" /\ exit_code' = 0 /\ UNCHANGED files
    /\ UNCHANGED <<loopVars, dataVars, fixedVars>>

Next ==
    \/ ModuleLoad
    \/ ValidateDates
    \/ FetchPage
    \/ CheckFetched
    \/ WriteVatOutput
    \/ Filter
    \/ CheckFiltered
    \/ Aggregate
    \/ GenerateExcel
    \/ GenerateCsv

Spec == Init /\ [][Next]_vars

\* ------------------------------------------- parse_invoices applied alone

OkArgs == [start_date |-> Iso(2024, 1, 1), end_date |-> Iso(2024, 1, 1),
           vat_file |-> FALSE, format |-> "both", vat_out |-> FALSE]
OkEnv == [USER_ID |-> TRUE, API_KEY |-> TRUE]

LineOk1 == Line(Leaf(<<SP>> \o ItemW), Leaf(<<SP>> \o Q3 \o <<SP>>))
LineOk2 == Line(Leaf(ItemG), Leaf(Q45))
LineNoDescr == Line(<<>>, Leaf(Q3))
LineNoQty == Line(Leaf(ItemW), <<>>)
LineEmptyQty == Line(Leaf(ItemG), Leaf(None))
LineBadQty == Line(Leaf(ItemG), Leaf(Qabc))
LineVariants == {LineOk1, LineOk2, LineNoDescr, LineNoQty, LineEmptyQty, LineBadQty}

DetailLists ==
    {<<>>} \cup {<<a>> : a \in LineVariants}
           \cup {<<a, b>> : a \in LineVariants, b \in LineVariants}

GoodIssuer == Issuer(Leaf(Vat123), Leaf(NameA))
GoodHeader == Header(Leaf(Iso(2024, 1, 5)))

InvoiceVariants ==
    {Invoice(GoodIssuer, GoodHeader, d) : d \in DetailLists}
    \cup {Invoice(i, GoodHeader, <<LineOk1>>) :
            i \in {<<>>, Issuer(Leaf(Vat123), <<>>), Issuer(<<>>, Leaf(None))}}
    \cup {Invoice(Issuer(<<>>, Leaf(NameB)), h, <<LineOk2>>) :
            h \in {<<>>, Header(<<>>), Header(Leaf(None)), Header(Leaf(Short(2024, 1, 4)))}}

\* every sequence over S of length at most n
RECURSIVE SeqsUpTo(_, _)
SeqsUpTo(S, n) ==
    IF n = 0 THEN {<<>>}
    ELSE LET shorter == SeqsUpTo(S, n - 1)
         IN shorter \cup {Append(q, x) : q \in shorter, x \in S}

ParseDocs ==
    {EmptyBody, MalformedBody, Doc(<<>>, <<>>)}
    \cup {Doc(<<>>, <<invoices>>) : invoices \in SeqsUpTo(InvoiceVariants, MaxInvoices)}

InitParse ==
    /\ pc = "parse"
    /\ env = OkEnv /\ args = OkArgs /\ vatfile = NoFile
    /\ requests = <<>> /\ bodies = <<>>
    /\ all_records = <<>> /\ next_partition_key = None /\ next_row_key = None
    /\ page = 1
    /\ records = <<>> /\ vat_data = <<>>
    /\ aggregated = EmptyDict /\ dates = <<>>
    /\ files = NoFiles /\ exit_code = -1
    /\ arg \in ParseDocs /\ ret = <<>>

\* records, next_partition_key, next_row_key = parse_invoices(xml_content)
Parse ==
    /\ pc = "parse"
    /\ ret' = <<parse_invoices(arg)>>
    /\ pc' = "parsed"
    /\ UNCHANGED <<env, args, vatfile, arg, loopVars, dataVars, files, exit_code>>

NextParse == Parse

SpecParse == InitParse /\ [][NextParse]_vars

\* ------------------------------------ filter_by_vat_numbers applied alone

Rec(name, vat, item, date, qty, adj) ==
    [issuer_name |-> name, issuer_vat |-> vat, item_descr |-> item,
     issue_date |-> date, quantity |-> qty, date_adjustment |-> adj]

FilterRecs ==
    {Rec(NameA, v, ItemW, Iso(2024, 3, 10), q, <<>>) :
        v \in {None, Vat12, Vat123, Vat999}, q \in {4, 6}}

VatPairs == { <<Vat123, -1>>, <<<<SP>> \o Vat123 \o <<SP>>, 1>>,
              <<Vat999, 0>>, <<Vat12 \o <<52>>, 2>> }

InitFilter ==
    /\ pc = "apply"
    /\ env = OkEnv /\ args = OkArgs /\ vatfile = NoFile
    /\ requests = <<>> /\ bodies = <<>>
    /\ all_records = <<>> /\ next_partition_key = None /\ next_row_key = None
    /\ page = 1
    /\ records = <<>> /\ vat_data = <<>>
    /\ aggregated = EmptyDict /\ dates = <<>>
    /\ files = NoFiles /\ exit_code = -1
    /\ arg \in [records : SeqsUpTo(FilterRecs, MaxRecs),
                vat_data : SeqsUpTo(VatPairs, MaxLines)]
    /\ ret = <<>>

\* filtered = filter_by_vat_numbers(records, vat_data)
ApplyFilter ==
    /\ pc = "apply"
    /\ ret' = <<filter_by_vat_numbers(arg.records, arg.vat_data)>>
    /\ pc' = "reapply"
    /\ UNCHANGED <<env, args, vatfile, arg, loopVars, dataVars, files, exit_code>>

\* filter_by_vat_numbers(filtered, vat_data)
ReapplyFilter ==
    /\ pc = "reapply"
    /\ ret' = Append(ret, filter_by_vat_numbers(ret[1], arg.vat_data))
    /\ pc' = "applied"
    /\ UNCHANGED <<env, args, vatfile, arg, loopVars, dataVars, files, exit_code>>

NextFilter == ApplyFilter \/ ReapplyFilter

SpecFilter == InitFilter /\ [][NextFilter]_vars

\* ------------------------------- aggregation and reports from any records

\* the records the filter step can hand over: one adjustment per identifier
AggRecs ==
    {Rec(i[1], i[2], ItemW, d, q, <<i[3]>>) :
        i \in { <<NameA, Vat123, -1>>, <<NameA, Vat999, 0>>, <<NameB, Vat999, 0>> },
        d \in { Iso(2024, 3, 10), Short(2024, 3, 9), Iso(2024, 3, 1), Zoned(2024, 3, 10) },
        q \in {6, 9}}
    \cup {Rec(NameB, None, ItemG, Iso(2024, 3, 10), q, <<0>>) : q \in {0, 1, -6, 10}}

InitAgg ==
    /\ pc = "aggregate"
    /\ env = OkEnv /\ args = OkArgs /\ vatfile = NoFile
    /\ requests = <<>> /\ bodies = <<>>
    /\ all_records = <<>> /\ next_partition_key = None /\ next_row_key = None
    /\ page = 1
    /\ records \in SeqsUpTo(AggRecs, MaxRecs) \ {<<>>}
    /\ vat_data = <<>>
    /\ aggregated = EmptyDict /\ dates = <<>>
    /\ files = NoFiles /\ exit_code = -1
    /\ arg = <<>> /\ ret = <<>>

NextAgg == Aggregate \/ GenerateExcel \/ GenerateCsv

SpecAgg == InitAgg /\ [][NextAgg]_vars

\* ------------------------------------------------------------ properties

RECURSIVE PageRecords(_)
\* the per-page record lists of a run of bodies, concatenated in fetch order
PageRecords(bs) ==
    IF Len(bs) = 0 THEN <<>>
    ELSE parse_invoices(Head(bs)).records \o PageRecords(Tail(bs))

\* a well-formed page that carries both cursor components
FullCursor(b) ==
    /\ b.kind = "doc"
    /\ Len(b.token) = 1
    /\ Len(b.token[1].nextPartitionKey) = 1 /\ b.token[1].nextPartitionKey[1] # <<>>
    /\ Len(b.token[1].nextRowKey) = 1 /\ b.token[1].nextRowKey[1] # <<>>

\* C1: every fetch after the first carries the cursor of the page before it,
\* which was well-formed with both components; the loop is still running
\* only after such a page and has stopped only at a page without one; the
\* records are the per-page record lists concatenated in fetch order.
C1_Pagination ==
    pc \in {"fetch", "fetched"} =>
        /\ Len(requests) = Len(bodies)
        /\ all_records = PageRecords(bodies)
        /\ Len(requests) > 0 =>
              /\ requests[1].nextPartitionKey = None
              /\ requests[1].nextRowKey = None
        /\ \A k \in 2..Len(requests) :
              /\ FullCursor(bodies[k - 1])
              /\ requests[k].nextPartitionKey = bodies[k - 1].token[1].nextPartitionKey[1]
              /\ requests[k].nextRowKey = bodies[k - 1].token[1].nextRowKey[1]
        /\ (pc = "fetch" /\ Len(bodies) > 0) => FullCursor(bodies[Len(bodies)])
        /\ pc = "fetched" => (Len(bodies) > 0 /\ ~FullCursor(bodies[Len(bodies)]))

\* three pages were fetched, each with records, and the third carried only
\* one cursor component
C1_Witness ==
    /\ pc = "fetched"
    /\ Len(bodies) = 3
    /\ \A k \in 1..3 : Len(parse_invoices(bodies[k]).records) > 0
    /\ bodies[1].token # bodies[2].token
    /\ bodies[3].token = Token(Leaf(KeyP1), <<>>)

\* C2: a failed transport call is the last call of the run, adds nothing,
\* and the function returns what the pages before it gave.
C2_TransportFailure ==
    \A k \in 1..Len(bodies) :
        bodies[k].kind = "empty" =>
            /\ k = Len(bodies)
            /\ Len(requests) = k
            /\ pc # "fetch"
            /\ pc = "fetched" => all_records = PageRecords(SubSeq(bodies, 1, k - 1))

\* the third call failed after two pages with records
C2_Witness ==
    /\ pc = "fetched"
    /\ Len(bodies) = 3
    /\ bodies[3].kind = "empty"
    /\ Len(parse_invoices(bodies[1]).records) > 0
    /\ Len(parse_invoices(bodies[2]).records) > 0
    /\ Len(all_records) > 0

\* the calendar day a date string names, as a day number
Day(s) == ToOrdinal(strptime(s).y, strptime(s).m, strptime(s).d)

RecKey(r) == <<r.issuer_name, r.item_descr>>

RECURSIVE SumQuantity(_, _)
\* the sum of the quantities of the records with the given indices
SumQuantity(recs, I) ==
    IF I = {} THEN 0
    ELSE LET i == CHOOSE x \in I : TRUE
         IN recs[i].quantity + SumQuantity(recs, I \ {i})

\* the effective date of a record is the date string d: the issue date
\* itself when the adjustment is zero, otherwise the zero-padded ISO form of
\* the issue day moved by the adjustment
EffectiveDateIs(r, d) ==
    IF get_date_adjustment(r) = 0 THEN d = r.issue_date
    ELSE /\ Len(d) = 10
         /\ strptime(d).ok
         /\ strptime(r.issue_date).ok
         /\ Day(d) = Day(r.issue_date) + get_date_adjustment(r)

AllDateStrings ==
    {records[n].issue_date : n \in 1..Len(records)}
    \cup {dates[j] : j \in 1..Len(dates)}
    \cup UNION {DOMAIN aggregated[k] : k \in DOMAIN aggregated}

C4_DateAxis ==
    pc = "excel" =>
        /\ \A i \in 1..Len(dates) : \A j \in (i + 1)..Len(dates) :
              (strptime(dates[i]).ok /\ strptime(dates[j]).ok)
                  => Day(dates[i]) < Day(dates[j])
        /\ {dates[j] : j \in 1..Len(dates)}
              = UNION {DOMAIN aggregated[k] : k \in DOMAIN aggregated}
        /\ Cardinality({dates[j] : j \in 1..Len(dates)}) = Len(dates)

\* the table of a list of (identifier, adjustment) pairs
TableKeys(pairs) == {Strip(pairs[i][1]) : i \in 1..Len(pairs)}

WithoutAdjustment(recs) ==
    [i \in 1..Len(recs) |-> [recs[i] EXCEPT !.date_adjustment = <<>>]]

\* C5: the output is the input records whose identifier is a table key, in
\* their order, each with an adjustment the table gives its identifier, and
\* filtering the output again changes nothing.
C5_Filter ==
    pc \in {"reapply", "applied"} =>
        LET keys == TableKeys(arg.vat_data)
            Kept(r) == r.issuer_vat \in keys
        IN /\ WithoutAdjustment(ret[1]) = WithoutAdjustment(SelectSeq(arg.records, Kept))
           /\ \A i \in 1..Len(ret[1]) :
                 /\ ret[1][i].issuer_vat \in keys
                 /\ \E n \in 1..Len(arg.vat_data) :
                       /\ Strip(arg.vat_data[n][1]) = ret[1][i].issuer_vat
                       /\ ret[1][i].date_adjustment = <<arg.vat_data[n][2]>>
           /\ pc = "applied" => ret[2] = ret[1]

\* a record whose identifier is a proper prefix of the only key was dropped
\* and one with the key itself was kept
C5_Witness ==
    /\ pc = "applied"
    /\ Len(arg.records) = 2
    /\ arg.records[1].issuer_vat = Vat12
    /\ arg.records[2].issuer_vat = Vat123
    /\ arg.vat_data = << <<<<SP>> \o Vat123 \o <<SP>>, 1>> >>
    /\ Len(ret[1]) = 1
    /\ ret[1][1].date_adjustment = <<1>>

\* an invoice with a name and an issue date; a line with a description and a
\* numeric quantity
HasNameAndDate(inv) ==
    /\ Len(inv.issuer) = 1
    /\ Len(inv.issuer[1].name) = 1 /\ inv.issuer[1].name[1] # <<>>
    /\ Len(inv.invoiceHeader) = 1
    /\ Len(inv.invoiceHeader[1].issueDate) = 1 /\ inv.invoiceHeader[1].issueDate[1] # <<>>

HasDescrAndNumber(line) ==
    /\ Len(line.itemDescr) = 1 /\ line.itemDescr[1] # <<>>
    /\ Len(line.quantity) = 1 /\ line.quantity[1] # <<>>
    /\ float(line.quantity[1]).ok

\* the (invoice, line) positions that give a record
GoodLines(invoices) ==
    {p \in UNION {{<<i, j>> : j \in 1..Len(invoices[i].invoiceDetails)} :
                    i \in 1..Len(invoices)} :
        /\ HasNameAndDate(invoices[p[1]])
        /\ HasDescrAndNumber(invoices[p[1]].invoiceDetails[p[2]])}

\* the place of a position among the good ones, in document order
Rank(S, p) ==
    Cardinality({q \in S : q[1] < p[1] \/ (q[1] = p[1] /\ q[2] <= p[2])})

\* C6: one record per good line of a good invoice, in document order, and
\* nothing else.
C6_Parse ==
    (pc = "parsed" /\ arg.kind = "doc" /\ Len(arg.invoicesDoc) = 1) =>
        LET invoices == arg.invoicesDoc[1]
            good == GoodLines(invoices)
            recs == ret[1].records
        IN /\ Len(recs) = Cardinality(good)
           /\ \A p \in good :
                 LET r == recs[Rank(good, p)]
                     inv == invoices[p[1]]
                     line == inv.invoiceDetails[p[2]]
                 IN /\ r.issuer_name = Strip(inv.issuer[1].name[1])
                    /\ r.issue_date = Strip(inv.invoiceHeader[1].issueDate[1])
                    /\ r.item_descr = Strip(line.itemDescr[1])
                    /\ r.quantity = float(line.quantity[1]).val

\* an invoice without a name before an invoice whose first line has a
\* non-numeric quantity and whose second line is good
C6_Witness ==
    /\ pc = "parsed"
    /\ arg.kind = "doc" /\ Len(arg.invoicesDoc) = 1
    /\ Len(arg.invoicesDoc[1]) = 2
    /\ ~HasNameAndDate(arg.invoicesDoc[1][1])
    /\ Len(arg.invoicesDoc[1][1].invoiceDetails) = 1
    /\ arg.invoicesDoc[1][2].invoiceDetails = <<LineBadQty, LineOk1>>
    /\ Len(ret[1].records) = 1
    /\ ret[1].records[1].quantity = 6

RECURSIVE Split(_, _)
\* text.split(sep)
Split(s, sep) ==
    IF \A i \in 1..Len(s) : s[i] # sep THEN <<s>>
    ELSE LET i == CHOOSE x \in 1..Len(s) :
                     s[x] = sep /\ \A y \in 1..(x - 1) : s[y] # sep
         IN <<SubSeq(s, 1, i - 1)>> \o Split(SubSeq(s, i + 1, Len(s)), sep)

\* the rows of fields of a delimited text whose lines all end in a newline
CsvRows(text) ==
    LET lines == Split(text, NL)
    IN [i \in 1..(Len(lines) - 1) |-> Split(lines[i], SEMI)]

\* the text of a whole number without its fraction
IsTextOf(field, n) ==
    /\ Len(field) > 0
    /\ \A i \in 1..Len(field) : field[i] >= 48 /\ field[i] <= 57
    /\ DigitsVal(field) = n
    /\ (Len(field) > 1 => field[1] # 48)

BothWritten == pc = "done" /\ DOMAIN files = {"xlsx", "csv"}

C8_Headers ==
    BothWritten =>
        LET cells == files["xlsx"].cells
            rows == CsvRows(files["csv"])
        IN /\ cells[<<1, 1>>] = StrCell(LabelIssuer)
           /\ cells[<<1, 2>>] = StrCell(LabelItem)
           /\ <<2, 1>> \notin DOMAIN cells /\ <<2, 2>> \notin DOMAIN cells
           /\ \A j \in 1..Len(dates) :
                 /\ cells[<<1, j + 2>>] = StrCell(dates[j])
                 /\ cells[<<2, j + 2>>] = StrCell(greek_days[weekday(strptime(dates[j]))])
           /\ rows[1] = <<LabelIssuer, LabelItem>> \o dates
           /\ rows[2] = <<None, None>>
                        \o [j \in 1..Len(dates) |-> greek_days[weekday(strptime(dates[j]))]]

Ended == pc \in {"exit", "done"}

BadDate == ~strptime(args.start_date).ok \/ ~strptime(args.end_date).ok

\* a filter file is given but is missing or has no identifier on any line
BadFilterFile ==
    /\ args.vat_file
    /\ \/ ~vatfile.exists
       \/ \A i \in 1..Len(vatfile.lines) : Strip(BeforeHash(vatfile.lines[i])) = <<>>

NoCredentials == ~env.USER_ID \/ ~env.API_KEY

\* C9 as stated: exit code 1 on a bad date, a bad filter file or missing
\* credentials, whatever was fetched; exit code 0 only on success or no data.
C9_ExitCodes ==
    Ended =>
        /\ (BadDate \/ BadFilterFile \/ NoCredentials) => exit_code = 1
        /\ exit_code = 0 => (pc = "done" \/ Len(all_records) = 0 \/ Len(records) = 0)

\* C9 amended: a bad date or missing credentials end the run with exit code
\* 1 before any request; a bad filter file ends it with exit code 1 when the
\* fetch returned a record, and with exit code 0 ("no data found") when it
\* returned none; exit code 0 only on success or no data.
C9_ExitCodesAmended ==
    Ended =>
        /\ (BadDate \/ NoCredentials) => (exit_code = 1 /\ Len(requests) = 0)
        /\ (~BadDate /\ ~NoCredentials /\ BadFilterFile) =>
              (IF Len(all_records) > 0 THEN exit_code = 1 ELSE exit_code = 0)
        /\ exit_code = 0 => (pc = "done" \/ Len(all_records) = 0 \/ Len(records) = 0)
        /\ pc = "done" => (exit_code = 0 /\ Len(records) > 0)

\* a run with a missing filter file that fetched records and ended with 1
C9_Witness ==
    /\ Ended
    /\ args.vat_file /\ ~vatfile.exists
    /\ Len(all_records) > 0
    /\ exit_code = 1

\* the filter step ran to its end
FilterApplied ==
    /\ Len(all_records) > 0
    /\ args.vat_file => (vatfile.exists /\ Len(vat_data) > 0)

\* C10 as stated: with no record after the fetch or after the filter, the
\* run ends with exit code 0 and has written no file at all.
C10_NoOutput ==
    Ended =>
        /\ (Len(requests) > 0 /\ Len(all_records) = 0)
              => (exit_code = 0 /\ DOMAIN files = {})
        /\ (FilterApplied /\ Len(records) = 0)
              => (exit_code = 0 /\ DOMAIN files = {})

\* C10 amended: such a run ends with exit code 0 and has written neither
\* the workbook nor the delimited text; the identifier dump of --vat-out is
\* not written when the fetch gave no record, and is written before the
\* filter when it gave some.
C10_NoReport ==
    Ended =>
        /\ (Len(requests) > 0 /\ Len(all_records) = 0)
              => (exit_code = 0 /\ DOMAIN files = {})
        /\ (FilterApplied /\ Len(records) = 0)
              => /\ exit_code = 0
                 /\ pc = "exit"
                 /\ DOMAIN files = (IF args.vat_out THEN {"vat_out"} ELSE {})

\* records were fetched, the dump was written, and the filter kept nothing
C10_Witness ==
    /\ Ended
    /\ FilterApplied /\ Len(records) = 0
    /\ args.vat_out
    /\ "vat_out" \in DOMAIN files
    /\ Len(files["vat_out"]) > 0

====
